---------------------------- MODULE Spec2Model ----------------------------
(***************************************************************************)
(* A model of nightsight's inference.py: the tiling / reconstruction       *)
(* pipeline (start_points, patchify, reconstruct) and the orchestration    *)
(* around it (_inference, inference).                                      *)
(*                                                                         *)
(* Arrays are sequences of rows, a row is a sequence of pixels; a pixel    *)
(* stands for the whole channel vector at that position, and the channel   *)
(* count travels in the shape tuples.  Offsets are the 0-based offsets of  *)
(* the source; TLA+ sequences are 1-based, so pixel (r, c) of the source   *)
(* is element [r+1][c+1] here.                                             *)
(*                                                                         *)
(* Three specifications share the actions:                                 *)
(*   SpecGrid   start_points as a function of (size, split_size, overlap)  *)
(*   SpecPatch  patchify followed by reconstruct, with pixel contents      *)
(*   Spec       inference over a list of inputs                            *)
(***************************************************************************)
EXTENDS Integers, Sequences, FiniteSets, TLC

\* ------------------------------------------------------------------ bounds
\* Largest extent start_points is run on in SpecGrid.
MaxExtent == 8
\* Largest image height and width in SpecPatch and Spec.
MaxDim == 7
\* Largest split_size (window size) in SpecPatch and Spec.
MaxWin == 3
\* Longest list of inputs handed to inference.
MaxItems == 2
\* The while loop of start_points is followed for at most this many
\* iterations; a run that gets there has not terminated.
MaxIter == 10

\* --------------------------------------------------------- program constants
\* The overlap of _inference is the literal 1/8.0.  Overlaps are modelled as
\* eighths, num/OverlapDen with num in 0..OverlapDen-1: on eighths the float
\* expression split_size * (1 - overlap) is exact, so int() of it is the
\* integer quotient below.
OverlapDen == 8
InferOverlapNum == 1
\* image.shape[k] > image_size * 2
SplitFactor == 2
\* Channel count of an input image, (H, W, 3).
Channels == 3

VARIABLES
    pc,             \* the statement the program is at
    stack,          \* return labels of the calls in progress
    err,            \* "" or the exception that ended the run
    \* start_points
    size, split_size, overlap, points, stride, counter,
    \* patchify / reconstruct
    image, splits, X_points, Y_points, result, count,
    \* _inference
    image_size, original_shape, recorded, tshape, c_out, inp, image_path,
    \* inference
    n_images, item, results, saved, outdir, returned

spVars == <<size, split_size, overlap, points, stride, counter>>
patchVars == <<image, splits, X_points, Y_points, result, count>>
infVars == <<image_size, original_shape, recorded, tshape, c_out, inp, image_path>>
batchVars == <<n_images, item, results, saved, outdir, returned>>
vars == <<pc, stack, err, spVars, patchVars, infVars, batchVars>>

\* ----------------------------------------------------------------- helpers
Min(a, b) == IF a < b THEN a ELSE b
Max(a, b) == IF a > b THEN a ELSE b

\* Python's slice normalisation of s[start:stop] on a sequence of length n:
\* a negative index counts from the end, and both ends are clamped to 0..n.
SliceLo(n, start) == IF start < 0 THEN Max(start + n, 0) ELSE Min(start, n)
PySlice(s, start, stop) ==
    LET lo == SliceLo(Len(s), start)
        hi == SliceLo(Len(s), stop)
    IN  IF hi > lo THEN SubSeq(s, lo + 1, hi) ELSE <<>>

\* image[i:i+split_size, j:j+split_size]
Crop(img, i, j, ws) ==
    LET rows == PySlice(img, i, i + ws)
    IN  [r \in 1..Len(rows) |-> PySlice(rows[r], j, j + ws)]

Height(a) == Len(a)
Width(a) == IF Len(a) = 0 THEN 0 ELSE Len(a[1])

\* A variant: each item's exception is caught and the loop goes on.
CaughtPerItem == "for_images"
\* An exception raised below inference is caught nowhere (line 147 sits in no
\* try block): it leaves inference, and the call is over.
Uncaught == "raised"

\* ------------------------------------------------------------ start_points
\* A variant: the grid starts empty.
InitialPointsEmpty == <<>>
\* points = [0]
InitialPoints == <<0>>

\* stride = int(split_size * (1-overlap)), overlap = num/OverlapDen
Stride(ws, num) == (ws * (OverlapDen - num)) \div OverlapDen

\* A variant: the last candidate is appended as it is.
UnclampedLast == stride * counter
\* points.append(size - split_size)
ClampedLast == size - split_size

\* Lines 24-26: the frame of a call start_points(size, split_size, overlap).
StartPointsBegin ==
    /\ pc = "start_points"
    /\ points' = InitialPoints
    /\ stride' = Stride(split_size, overlap)
    /\ counter' = 1
    /\ pc' = "sp_loop"
    /\ UNCHANGED <<stack, err, size, split_size, overlap, patchVars, infVars, batchVars>>

\* One iteration that takes the else branch: points.append(pt); counter += 1.
StartPointsAppend ==
    /\ pc = "sp_loop"
    /\ counter < MaxIter
    /\ LET pt == stride * counter
       IN  /\ ~(pt + split_size >= size)
           /\ points' = Append(points, pt)
    /\ counter' = counter + 1
    /\ UNCHANGED <<pc, stack, err, size, split_size, overlap, stride, patchVars,
                   infVars, batchVars>>

\* A variant: the final offset is left out when it repeats the last one.
StartPointsBreakDedup ==
    /\ pc = "sp_loop"
    /\ LET pt == stride * counter
       IN  /\ pt + split_size >= size
           /\ points' = IF points[Len(points)] = ClampedLast THEN points
                         ELSE Append(points, ClampedLast)
    /\ pc' = Head(stack)
    /\ stack' = Tail(stack)
    /\ UNCHANGED <<err, size, split_size, overlap, stride, counter, patchVars,
                   infVars, batchVars>>

\* The iteration that takes the if branch: append the clamped offset, break,
\* return points to the caller.
StartPointsBreak ==
    /\ pc = "sp_loop"
    /\ LET pt == stride * counter
       IN  /\ pt + split_size >= size
           /\ points' = Append(points, ClampedLast)
    /\ pc' = Head(stack)
    /\ stack' = Tail(stack)
    /\ UNCHANGED <<err, size, split_size, overlap, stride, counter, patchVars,
                   infVars, batchVars>>

StartPointsNext == StartPointsBegin \/ StartPointsAppend \/ StartPointsBreak

\* Values of the variables a specification does not use.
NoInput == [kind |-> "none", np |-> FALSE, pil |-> FALSE, h |-> 0, w |-> 0]
NoPatch ==
    /\ image = <<>> /\ splits = <<>> /\ X_points = <<>> /\ Y_points = <<>>
    /\ result = <<>> /\ count = 0
NoInference ==
    /\ image_size = 0 /\ original_shape = <<>> /\ recorded = FALSE
    /\ tshape = <<>> /\ c_out = 0 /\ inp = NoInput /\ image_path = ""
NoBatch ==
    /\ n_images = 0 /\ item = 0 /\ results = <<>> /\ saved = <<>>
    /\ outdir = FALSE /\ returned = <<>>

\* start_points on every extent >= split_size > 0 and overlap in [0, 1).
InitGrid ==
    /\ pc = "start_points"
    /\ stack = <<"done">>
    /\ err = ""
    /\ size \in 1..MaxExtent
    /\ split_size \in 1..size
    /\ overlap \in 0..(OverlapDen - 1)
    /\ points = <<>> /\ stride = 0 /\ counter = 0
    /\ NoPatch /\ NoInference /\ NoBatch

SpecGrid == InitGrid /\ [][StartPointsNext]_vars


\* ---------------------------------------------------------------- patchify
\* An H x W image whose pixels are all different and none zero: the code
\* never looks at a pixel value, so this image stands for every image of
\* its shape.
TaggedImage(h, w) == [r \in 1..h |-> [c \in 1..w |-> (r - 1) * w + c]]

\* A variant: the loops nested the other way, X_points outer.
PatchesColumnMajor(img, Y, X, ws) ==
    [k \in 1..(Len(Y) * Len(X)) |->
        Crop(img, Y[((k - 1) % Len(Y)) + 1], X[((k - 1) \div Len(Y)) + 1], ws)]
\* Lines 41-45: for i in Y_points: for j in X_points: splits.append(crop).
\* Patch number k (from 0) is the one of Y_points[k div n], X_points[k mod n],
\* n = len(X_points).
Patches(img, Y, X, ws) ==
    [k \in 1..(Len(Y) * Len(X)) |->
        Crop(img, Y[((k - 1) \div Len(X)) + 1], X[((k - 1) % Len(X)) + 1], ws)]

\* Whether np.asarray(splits) is a regular N x h x w x C array.
Uniform(batch) ==
    \A k \in 1..Len(batch) :
        /\ Height(batch[k]) = Height(batch[1])
        /\ \A r \in 1..Height(batch[k]) : Len(batch[k][r]) = Width(batch[1])
        /\ \A r \in 1..Height(batch[1]) : Len(batch[1][r]) = Width(batch[1])

\* Line 37: Y_points = start_points(image.shape[0], split_size, overlap)
PatchifyY ==
    /\ pc = "patchify"
    /\ size' = Height(image)
    /\ stack' = <<"patchify_X">> \o stack
    /\ pc' = "start_points"
    /\ UNCHANGED <<err, split_size, overlap, points, stride, counter, patchVars,
                   infVars, batchVars>>

\* Line 38: X_points = start_points(image.shape[1], split_size, overlap)
PatchifyX ==
    /\ pc = "patchify_X"
    /\ Y_points' = points
    /\ size' = Width(image)
    /\ stack' = <<"patchify_split">> \o stack
    /\ pc' = "start_points"
    /\ UNCHANGED <<err, split_size, overlap, points, stride, counter, image, splits,
                   X_points, result, count, infVars, batchVars>>

\* Lines 40-50 when the crops all have one shape: build the batch, return.
PatchifySplit ==
    /\ pc = "patchify_split"
    /\ Uniform(Patches(image, Y_points, points, split_size))
    /\ X_points' = points
    /\ splits' = Patches(image, Y_points, points, split_size)
    /\ pc' = Head(stack)
    /\ stack' = Tail(stack)
    /\ UNCHANGED <<err, spVars, image, Y_points, result, count, infVars, batchVars>>

\* Lines 40-50 when the crops differ in shape (a negative offset was
\* sliced): np.asarray raises ValueError, or, on a numpy that builds an
\* object array instead, torch.from_numpy raises TypeError at line 109.
\* Either way the exception leaves _inference before the transform runs.
PatchifyRagged ==
    /\ pc = "patchify_split"
    /\ ~Uniform(Patches(image, Y_points, points, split_size))
    /\ X_points' = points
    /\ err' \in {"ValueError", "TypeError"}
    /\ pc' = Uncaught
    /\ stack' = <<>>
    /\ UNCHANGED <<spVars, image, splits, Y_points, result, count, infVars, batchVars>>

\* ------------------------------------------------------- external transform
\* Pixel (r, c) of item k of a transformed batch, tagged with its place.
Tag(k, r, c) == 100 * k + 10 * r + c
\* The transform is a black box that keeps the item count and the spatial
\* size.  Two instances: one that leaves every pixel as it is, and one whose
\* output pixels are all different and none zero.
NetModes == {"same", "tagged"}
Net(batch, mode) ==
    IF mode = "same" THEN batch
    ELSE [k \in 1..Len(batch) |->
            [r \in 1..Height(batch[k]) |->
                [c \in 1..Len(batch[k][r]) |-> Tag(k, r, c)]]]

\* -------------------------------------------------------------- reconstruct
\* torch.zeros(image_size): the spatial part of the canvas.
Zeros(shape) == [r \in 1..shape[1] |-> [c \in 1..shape[2] |-> 0]]

\* Whether a value dimension v broadcasts to a target dimension t.
Broadcasts(v, t) == v = t \/ v = 1

\* The place of iteration number n (from 0) of
\* for i in Y_points: for j in X_points
IterY(n) == Y_points[(n \div Len(X_points)) + 1]
IterX(n) == X_points[(n % Len(X_points)) + 1]

\* A variant: a pixel already written keeps its value (first write wins).
AssignIfEmpty(canvas, patch, i, j, ws) ==
    LET rlo == SliceLo(Height(canvas), i)
        rhi == SliceLo(Height(canvas), i + ws)
        clo == SliceLo(Width(canvas), j)
        chi == SliceLo(Width(canvas), j + ws)
    IN  [r \in 1..Height(canvas) |-> [c \in 1..Width(canvas) |->
            IF r > rlo /\ r <= rhi /\ c > clo /\ c <= chi /\ canvas[r][c] = 0
            THEN patch[IF Height(patch) = 1 THEN 1 ELSE r - rlo]
                      [IF Width(patch) = 1 THEN 1 ELSE c - clo]
            ELSE canvas[r][c]]]
\* canvas[i:i+ws, j:j+ws] = patch, for a patch that broadcasts to the slice.
Assign(canvas, patch, i, j, ws) ==
    LET rlo == SliceLo(Height(canvas), i)
        rhi == SliceLo(Height(canvas), i + ws)
        clo == SliceLo(Width(canvas), j)
        chi == SliceLo(Width(canvas), j + ws)
    IN  [r \in 1..Height(canvas) |-> [c \in 1..Width(canvas) |->
            IF r > rlo /\ r <= rhi /\ c > clo /\ c <= chi
            THEN patch[IF Height(patch) = 1 THEN 1 ELSE r - rlo]
                      [IF Width(patch) = 1 THEN 1 ELSE c - clo]
            ELSE canvas[r][c]]]

\* Whether that assignment is accepted: the patch, of c channels, broadcasts
\* to the slice of the canvas.
Assignable(canvas, cc, patch, c, i, j, ws) ==
    LET sh == Max(SliceLo(Height(canvas), i + ws) - SliceLo(Height(canvas), i), 0)
        sw == Max(SliceLo(Width(canvas), j + ws) - SliceLo(Width(canvas), j), 0)
    IN  /\ Broadcasts(Height(patch), sh)
        /\ Broadcasts(Width(patch), sw)
        /\ Broadcasts(c, cc)

\* Lines 54-57: result = torch.zeros(image_size); count = 0
ReconstructBegin ==
    /\ pc = "reconstruct"
    /\ result' = Zeros(original_shape)
    /\ count' = 0
    /\ pc' = "rc_loop"
    /\ UNCHANGED <<stack, err, spVars, image, splits, X_points, Y_points, infVars,
                   batchVars>>

\* Lines 58-61, one iteration: result[i:i+ws, j:j+ws] = splits[count].
ReconstructWrite ==
    /\ pc = "rc_loop"
    /\ count < Len(Y_points) * Len(X_points)
    /\ count < Len(splits)
    /\ Assignable(result, original_shape[3], splits[count + 1], c_out,
                  IterY(count), IterX(count), split_size)
    /\ result' = Assign(result, splits[count + 1], IterY(count), IterX(count),
                        split_size)
    /\ count' = count + 1
    /\ UNCHANGED <<pc, stack, err, spVars, image, splits, X_points, Y_points,
                   infVars, batchVars>>

\* Lines 58-61, an iteration that fails: splits[count] is past the end of
\* the batch (IndexError), or the patch does not fit the slice (RuntimeError).
ReconstructRaise ==
    /\ pc = "rc_loop"
    /\ count < Len(Y_points) * Len(X_points)
    /\ IF count >= Len(splits)
       THEN err' = "IndexError"
       ELSE /\ ~Assignable(result, original_shape[3], splits[count + 1], c_out,
                           IterY(count), IterX(count), split_size)
            /\ err' = "RuntimeError"
    /\ pc' = Uncaught
    /\ stack' = <<>>
    /\ UNCHANGED <<spVars, patchVars, infVars, batchVars>>

\* Line 62: return result
ReconstructReturn ==
    /\ pc = "rc_loop"
    /\ count = Len(Y_points) * Len(X_points)
    /\ pc' = Head(stack)
    /\ stack' = Tail(stack)
    /\ UNCHANGED <<err, spVars, patchVars, infVars, batchVars>>

\* ------------------------------------------------ patchify, then reconstruct
\* reconstruct applied to a transform of the batch patchify returned, with
\* the grids patchify returned and the image's own shape as the target.
PatchEnhance ==
    /\ pc = "patch_enhance"
    /\ \E mode \in NetModes : splits' = Net(splits, mode)
    /\ pc' = "reconstruct"
    /\ stack' = <<"done">>
    /\ UNCHANGED <<err, spVars, image, X_points, Y_points, result, count, infVars,
                   batchVars>>

\* Every image and window that meet start_points' precondition
\* (split_size <= extent on both axes), every overlap in eighths.
InitPatch ==
    /\ pc = "patchify"
    /\ stack = <<"patch_enhance">>
    /\ err = ""
    /\ split_size \in 1..MaxWin
    /\ overlap \in 0..(OverlapDen - 1)
    /\ \E h \in split_size..MaxDim, w \in split_size..MaxDim :
          /\ image = TaggedImage(h, w)
          /\ original_shape = <<h, w, Channels>>
    /\ size = 0 /\ points = <<>> /\ stride = 0 /\ counter = 0
    /\ splits = <<>> /\ X_points = <<>> /\ Y_points = <<>>
    /\ result = <<>> /\ count = 0
    /\ image_size = 0 /\ recorded = FALSE /\ tshape = <<>> /\ c_out = Channels
    /\ inp = NoInput /\ image_path = ""
    /\ NoBatch

PatchNext ==
    \/ StartPointsNext
    \/ PatchifyY \/ PatchifyX \/ PatchifySplit
    \/ PatchEnhance
    \/ ReconstructBegin \/ ReconstructWrite \/ ReconstructReturn

SpecPatch == InitPatch /\ [][PatchNext]_vars

\* -------------------------------------------------------------- _inference
\* Shapes are tuples; the tensor operations of lines 105-126 on them.
Permute(shape, order) == [k \in 1..Len(order) |-> shape[order[k]]]
Squeeze0(shape) == IF Len(shape) > 0 /\ shape[1] = 1 THEN Tail(shape) ELSE shape
\* The shape of np.asarray(batch) for a batch of (h, w, 3) items.
BatchShape(batch) == <<Len(batch), Height(batch[1]), Width(batch[1]), Channels>>

\* permute(0, 3, 1, 2), permute(0, 2, 3, 1) and permute(2, 0, 1), 1-based.
ToNCHW == <<1, 4, 2, 3>>
ToNHWC == <<1, 3, 4, 2>>
\* A variant of the last: the canvas keeps its axis order.
NoPermute == <<1, 2, 3>>
ToCHW == <<3, 1, 2>>

\* Lines 70-82.  The numeric-array loader runs first and leaves the array
\* or None; the image loader runs next whatever the first one did, and its
\* outcome, the image or None, replaces what was there.
AfterNumpy(npOk) == IF npOk THEN "numpy" ELSE "none"
AfterPIL(before, pilOk) == IF pilOk THEN "pil" ELSE "none"

\* Line 97: image.shape[0] > image_size * 2 or image.shape[1] > image_size * 2
NeedsSplit(img, ws) ==
    Height(img) > ws * SplitFactor \/ Width(img) > ws * SplitFactor

\* The locals of one call of _inference, before any is assigned.
FreshFrame ==
    /\ size' = 0 /\ split_size' = 0 /\ overlap' = 0 /\ points' = <<>>
    /\ stride' = 0 /\ counter' = 0
    /\ image' = <<>> /\ splits' = <<>> /\ X_points' = <<>> /\ Y_points' = <<>>
    /\ result' = <<>> /\ count' = 0
    /\ original_shape' = <<>> /\ recorded' = FALSE /\ tshape' = <<>>
    /\ image_path' = ""

\* Lines 66-87, a path: both loaders are tried; None after them is an error.
InferenceLoadPath ==
    /\ pc = "_inference"
    /\ inp.kind = "path"
    /\ IF AfterPIL(AfterNumpy(inp.np), inp.pil) = "none"
       THEN /\ err' = "InvalidPath"
            /\ pc' = Uncaught
            /\ stack' = <<>>
            /\ UNCHANGED <<image, image_path>>
       ELSE /\ image' = TaggedImage(inp.h, inp.w)
            /\ image_path' = "path"
            /\ pc' = "split_or_resize"
            /\ UNCHANGED <<stack, err>>
    /\ UNCHANGED <<spVars, splits, X_points, Y_points, result, count, image_size,
                   original_shape, recorded, tshape, c_out, inp, batchVars>>

\* Lines 89-91, an array: used as it is, under a random name.
InferenceLoadArray ==
    /\ pc = "_inference"
    /\ inp.kind = "ndarray"
    /\ image' = TaggedImage(inp.h, inp.w)
    /\ image_path' = "random.jpg"
    /\ pc' = "split_or_resize"
    /\ UNCHANGED <<stack, err, spVars, splits, X_points, Y_points, result, count,
                   image_size, original_shape, recorded, tshape, c_out, inp,
                   batchVars>>

\* Lines 92-94, anything else: ValueError("Invalid input.").
InferenceInvalidType ==
    /\ pc = "_inference"
    /\ inp.kind = "other"
    /\ err' = "InvalidInput"
    /\ pc' = Uncaught
    /\ stack' = <<>>
    /\ UNCHANGED <<spVars, patchVars, infVars, batchVars>>

\* Lines 97-102: record the shape, call patchify(image, image_size, 1/8.0).
InferenceSplit ==
    /\ pc = "split_or_resize"
    /\ NeedsSplit(image, image_size)
    /\ original_shape' = <<Height(image), Width(image), Channels>>
    /\ recorded' = TRUE
    /\ split_size' = image_size
    /\ overlap' = InferOverlapNum
    /\ stack' = <<"tensorify">> \o stack
    /\ pc' = "patchify"
    /\ UNCHANGED <<err, size, points, stride, counter, patchVars, image_size, tshape,
                   c_out, inp, image_path, batchVars>>

\* Lines 103-105: image = np.expand_dims(image, 0), a batch of one.
InferenceNoSplit ==
    /\ pc = "split_or_resize"
    /\ ~NeedsSplit(image, image_size)
    /\ splits' = <<image>>
    /\ pc' = "tensorify"
    /\ UNCHANGED <<stack, err, spVars, image, X_points, Y_points, result, count,
                   infVars, batchVars>>

\* Lines 107-115: to [N C H W], normalise, one call of the transform on the
\* whole batch; ei has the batch's item count and spatial size and c_out
\* channels.
InferenceEnhance ==
    /\ pc = "tensorify"
    /\ \E mode \in NetModes : splits' = Net(splits, mode)
    /\ tshape' = [Permute(BatchShape(splits), ToNCHW) EXCEPT ![2] = c_out]
    /\ pc' = "assemble"
    /\ UNCHANGED <<stack, err, spVars, image, X_points, Y_points, result, count,
                   image_size, original_shape, recorded, c_out, inp, image_path,
                   batchVars>>

\* Lines 121-122, 128: ei.size(0) == 1, result = ei.squeeze(0); return.
InferenceUnwrap ==
    /\ pc = "assemble"
    /\ tshape[1] = 1
    /\ result' = splits[1]
    /\ tshape' = Squeeze0(tshape)
    /\ pc' = Head(stack)
    /\ stack' = Tail(stack)
    /\ UNCHANGED <<err, spVars, image, splits, X_points, Y_points, count, image_size,
                   original_shape, recorded, c_out, inp, image_path, batchVars>>

\* Lines 123-126: reconstruct(ei.permute(0, 2, 3, 1), image_size, 1/8.0,
\* original_shape, X_points, Y_points).  original_shape, X_points and
\* Y_points are assigned on the split branch only: read unassigned, they
\* raise UnboundLocalError.
InferenceReconstruct ==
    /\ pc = "assemble"
    /\ tshape[1] # 1
    /\ IF recorded
       THEN /\ tshape' = Permute(tshape, ToNHWC)
            /\ split_size' = image_size
            /\ stack' = <<"finish">> \o stack
            /\ pc' = "reconstruct"
            /\ err' = err
       ELSE /\ err' = "UnboundLocalError"
            /\ pc' = Uncaught
            /\ stack' = <<>>
            /\ UNCHANGED <<tshape, split_size>>
    /\ UNCHANGED <<size, overlap, points, stride, counter, patchVars, image_size,
                   original_shape, recorded, c_out, inp, image_path, batchVars>>

\* Lines 126, 128: .squeeze(0).permute(2, 0, 1) on the canvas, then return.
\* permute raises RuntimeError when squeeze left fewer than three axes.
InferenceFinish ==
    /\ pc = "finish"
    /\ LET sq == Squeeze0(original_shape)
       IN  IF Len(sq) = Len(ToCHW)
           THEN /\ tshape' = Permute(sq, ToCHW)
                /\ pc' = Head(stack)
                /\ stack' = Tail(stack)
                /\ err' = err
           ELSE /\ err' = "RuntimeError"
                /\ pc' = Uncaught
                /\ stack' = <<>>
                /\ UNCHANGED tshape
    /\ UNCHANGED <<spVars, patchVars, image_size, original_shape, recorded, c_out,
                   inp, image_path, batchVars>>

\* --------------------------------------------------------------- inference
\* Channel counts a transform may answer with.
COuts == {1, 3, 4}
InputKinds == {"path", "ndarray", "other"}

\* The inputs an item of the list can be: a path with each outcome of the
\* two loaders, an array, or a value of another type; an image that loads
\* has shape (h, w, 3).
Inputs ==
    {[kind |-> "path", np |-> n, pil |-> TRUE, h |-> h, w |-> w] :
        n \in BOOLEAN, h \in 1..MaxDim, w \in 1..MaxDim}
    \cup {[kind |-> "path", np |-> n, pil |-> FALSE, h |-> 1, w |-> 1] : n \in BOOLEAN}
    \cup {[kind |-> "ndarray", np |-> FALSE, pil |-> FALSE, h |-> h, w |-> w] :
        h \in 1..MaxDim, w \in 1..MaxDim}
    \cup {[kind |-> "other", np |-> FALSE, pil |-> FALSE, h |-> 0, w |-> 0]}

\* Lines 135-143: load the weights into a fresh model; a bad weights file
\* raises here, before any item.
InferenceLoadWeights ==
    /\ pc = "inference"
    /\ \/ /\ c_out' \in COuts
          /\ pc' = "for_images"
          /\ err' = err
       \/ /\ err' = "WeightsLoadError"
          /\ pc' = "raised"
          /\ c_out' = c_out
    /\ UNCHANGED <<stack, spVars, patchVars, image_size, original_shape, recorded,
                   tshape, inp, image_path, batchVars>>

\* Lines 146-147: the next inp of images; call _inference(net, inp, image_size).
InferenceNextItem ==
    /\ pc = "for_images"
    /\ item < n_images
    /\ item' = item + 1
    /\ inp' \in Inputs
    /\ FreshFrame
    /\ stack' = <<"append_result">>
    /\ pc' = "_inference"
    /\ UNCHANGED <<err, image_size, c_out, n_images, results, saved, outdir, returned>>

\* Line 147: results.append((ei, image_path)); the locals of the call end.
InferenceAppend ==
    /\ pc = "append_result"
    /\ results' = Append(results, <<item, image_path>>)
    /\ pc' = "for_images"
    /\ UNCHANGED <<stack, err, spVars, patchVars, infVars, n_images, item, saved,
                   outdir, returned>>

\* Lines 149-156, one result saved under outdir.
InferenceSave ==
    /\ pc = "for_images"
    /\ item = n_images
    /\ outdir
    /\ Len(saved) < Len(results)
    /\ saved' = Append(saved, results[Len(saved) + 1])
    /\ UNCHANGED <<pc, stack, err, spVars, patchVars, infVars, n_images, item,
                   results, outdir, returned>>

\* Line 157: return results
InferenceReturn ==
    /\ pc = "for_images"
    /\ item = n_images
    /\ outdir => Len(saved) = Len(results)
    /\ returned' = results
    /\ pc' = "returned"
    /\ UNCHANGED <<stack, err, spVars, patchVars, infVars, n_images, item, results,
                   saved, outdir>>

\* inference(weights, images, image_size, outdir) on a list of 1..MaxItems
\* inputs (a single input is wrapped into a list of one, lines 132-133).
Init ==
    /\ pc = "inference"
    /\ stack = <<>>
    /\ err = ""
    /\ n_images \in 1..MaxItems
    /\ image_size \in 1..MaxWin
    /\ outdir \in BOOLEAN
    /\ item = 0 /\ results = <<>> /\ saved = <<>> /\ returned = <<>>
    /\ size = 0 /\ split_size = 0 /\ overlap = 0 /\ points = <<>>
    /\ stride = 0 /\ counter = 0
    /\ NoPatch
    /\ original_shape = <<>> /\ recorded = FALSE /\ tshape = <<>> /\ c_out = 0
    /\ inp = NoInput /\ image_path = ""

Next ==
    \/ InferenceLoadWeights \/ InferenceNextItem \/ InferenceAppend
    \/ InferenceSave \/ InferenceReturn
    \/ InferenceLoadPath \/ InferenceLoadArray \/ InferenceInvalidType
    \/ InferenceSplit \/ InferenceNoSplit \/ InferenceEnhance
    \/ InferenceUnwrap \/ InferenceReconstruct \/ InferenceFinish
    \/ StartPointsNext
    \/ PatchifyY \/ PatchifyX \/ PatchifySplit \/ PatchifyRagged
    \/ ReconstructBegin \/ ReconstructWrite \/ ReconstructRaise \/ ReconstructReturn

Spec == Init /\ [][Next]_vars

\* ============================================================ properties
InvalidInputErrors == {"InvalidPath", "InvalidInput"}

\* The patches, among the first n written, whose window holds pixel (r, c)
\* (1-based), and the value the last of them put there.
Covering(r, c, n) ==
    {k \in 1..n :
        /\ IterY(k - 1) < r /\ r <= IterY(k - 1) + split_size
        /\ IterX(k - 1) < c /\ c <= IterX(k - 1) + split_size}
LastOf(S) == CHOOSE k \in S : \A j \in S : j <= k
LastWrite(r, c, n) ==
    IF Covering(r, c, n) = {} THEN 0
    ELSE LET k == LastOf(Covering(r, c, n))
         IN  splits[k][r - IterY(k - 1)][c - IterX(k - 1)]

\* C1: for extent >= split_size > 0 and 0 <= overlap < 1, every offset o of
\* the grid start_points returns has 0 <= o and o + split_size <= extent,
\* and every position of [0, extent) lies in some window [o, o + split_size).
C1_GridCoversExtent ==
    pc = "done" =>
        /\ \A k \in 1..Len(points) :
              0 <= points[k] /\ points[k] + split_size <= size
        /\ \A x \in 0..(size - 1) :
              \E k \in 1..Len(points) : points[k] <= x /\ x < points[k] + split_size
\* A grid of an overlapping stride whose last offset was pulled back.
C1_Witness ==
    /\ pc = "done"
    /\ overlap > 0
    /\ Len(points) >= 3
    /\ points[Len(points)] - points[Len(points) - 1] < stride

\* C2: start_points terminates for every extent >= split_size > 0 and every
\* overlap in [0, 1), a stride of 0 included.  With a stride of at least 1
\* (a stride <= 0 counting as 1) candidate number k is at least k, so the
\* loop breaks before its counter passes extent: a run whose counter does
\* pass extent is in a loop whose candidates no longer advance.
C2_StartPointsTerminates == pc = "sp_loop" => counter <= size

\* C8 as stated: for split_size = extent, start_points returns the
\* one-element grid [0].
C8_SingleOffset == (pc = "done" /\ size = split_size) => points = <<0>>
\* C8 amended: for split_size = extent, start_points returns [0, 0]: the
\* initial offset and the clamped final offset extent - split_size = 0.
C8_ZeroTwice == (pc = "done" /\ size = split_size) => points = <<0, 0>>
C8_Witness == pc = "done" /\ size = split_size /\ size > 1 /\ overlap > 0

\* C5: for an image whose height and width are multiples of split_size,
\* reconstruct on the patches and grids of patchify(image, split_size, 0),
\* with the image's shape as target, gives back the image pixel for pixel.
C5_RoundTrip ==
    ( /\ pc = "done"
      /\ overlap = 0
      /\ Height(image) % split_size = 0
      /\ Width(image) % split_size = 0
      /\ splits = Patches(image, Y_points, X_points, split_size) )
    => result = image
C5_Witness ==
    /\ pc = "done"
    /\ overlap = 0
    /\ split_size >= 2
    /\ Height(image) = 3 * split_size
    /\ Width(image) = 2 * split_size
    /\ splits = Patches(image, Y_points, X_points, split_size)
    /\ result = image

\* C9: while and after reconstruct writes (one patch per (row, column) pair
\* of the grids), every canvas pixel holds the value of the last patch
\* written, in row-grid-outer / column-grid-inner order, whose window holds
\* it, 0 if there is none yet; and once all are written no pixel is 0.
C9_LastWriteWins ==
    (pc \in {"rc_loop", "done"}) =>
        \A r \in 1..Height(result) : \A c \in 1..Width(result) :
            /\ result[r][c] = LastWrite(r, c, count)
            /\ pc = "done" => result[r][c] # 0
\* A finished canvas with a pixel three tagged patches were written to.
C9_Witness ==
    /\ pc = "done"
    /\ splits[1][1][1] = Tag(1, 1, 1)
    /\ \E r \in 1..Height(result) : \E c \in 1..Width(result) :
          /\ Cardinality(Covering(r, c, count)) >= 3
          /\ result[r][c] = LastWrite(r, c, count)

\* C3: a path input fails with the invalid-path error if and only if both
\* loaders fail; a path that loads as a numeric array only is accepted.
C3_FailsIffBothLoadersFail ==
    (inp.kind = "path" /\ pc # "_inference") =>
        (err = "InvalidPath" <=> (~inp.np /\ ~inp.pil))

\* C4: whenever _inference splits an image, split_size <= extent holds on
\* both axes, and no grid holds a negative offset.
C4_SplitMeetsGridPrecondition ==
    recorded =>
        /\ image_size <= Height(image)
        /\ image_size <= Width(image)
        /\ \A k \in 1..Len(points) : points[k] >= 0
        /\ \A k \in 1..Len(Y_points) : Y_points[k] >= 0
        /\ \A k \in 1..Len(X_points) : X_points[k] >= 0

\* C6 as stated: _inference returns a result of shape (H, W, C_out), in
\* (row, column, channel) order, split or not.
C6_ResultIsHWC ==
    pc = "append_result" => tshape = <<inp.h, inp.w, c_out>>
\* C6 amended: whenever _inference returns, the result is channel-first,
\* (C, H, W): C is the transform's C_out when the image was not split, and
\* the 3 channels of the recorded original shape when it was.
C6_ResultIsCHW ==
    pc = "append_result" =>
        tshape = <<IF recorded THEN Channels ELSE c_out, inp.h, inp.w>>
\* A split image, reconstructed from one-channel patches, has been returned.
C6_Witness ==
    /\ pc = "append_result"
    /\ recorded
    /\ c_out = 1
    /\ inp.h # inp.w
    /\ Len(splits) >= 6

\* C7 as stated: an item that fails with an invalid-input error spares the
\* other items of the list: when the call is over each of them has its
\* result returned and, with an output directory, saved.
C7_FailureSparesOtherItems ==
    (pc \in {"raised", "returned"} /\ err \in InvalidInputErrors) =>
        \A i \in 1..n_images : i # item =>
            /\ \E k \in 1..Len(returned) : returned[k][1] = i
            /\ outdir => \E k \in 1..Len(saved) : saved[k][1] = i
\* C7 amended: an item that fails with an invalid-input error aborts the
\* whole call: the exception leaves inference, which returns no result and
\* saves none, those of the items before it included.
C7_FailureAbortsBatch ==
    err \in InvalidInputErrors =>
        /\ pc = "raised"
        /\ returned = <<>>
        /\ saved = <<>>
\* The second item failed after the first had its result appended.
C7_Witness ==
    /\ pc = "raised"
    /\ err = "InvalidPath"
    /\ item = 2
    /\ Len(results) = 1
    /\ outdir

\* C10: with a transform that keeps the item count, the transformed batch
\* has one item if and only if the image was not split; a split image has
\* at least 2 offsets per axis and at least 4 patches; reconstruct is
\* reached only with the original shape and the grids recorded.
C10_OneItemIffNotSplit ==
    /\ pc = "assemble" => (tshape[1] = 1 <=> ~recorded)
    /\ (recorded /\ pc \in {"tensorify", "assemble", "reconstruct", "rc_loop",
                           "finish", "append_result"}) =>
          /\ Len(Y_points) >= 2
          /\ Len(X_points) >= 2
          /\ Len(splits) >= 4
    /\ pc \in {"reconstruct", "rc_loop", "finish"} => recorded
    /\ err # "UnboundLocalError"
\* A split image whose height is exactly the window: two rows of patches.
C10_Witness ==
    /\ pc = "assemble"
    /\ recorded
    /\ Height(image) = image_size
    /\ Len(Y_points) = 2
    /\ tshape[1] = Len(Y_points) * Len(X_points)

=============================================================================
